---------------------------- MODULE Spec2Model ----------------------------
(***************************************************************************)
(* Model of toycodes/a_mps.py: the class SimpleMPS and the function        *)
(* split_truncate_theta.                                                   *)
(*                                                                         *)
(* Representation.                                                         *)
(*  - A tensor is represented by its shape (a tuple of leg dimensions);     *)
(*    the entries of the site tensors are not represented.  Whatever the   *)
(*    code computes from entries with a numerical library (the singular    *)
(*    values of theta, the eigenvalues of the transfer matrix, the value   *)
(*    of a full contraction) enters the model as an input of the action    *)
(*    that calls the library, drawn from the outcomes the library can      *)
(*    return.                                                              *)
(*  - A non-negative real number (a singular value, eps) is a point of a   *)
(*    finite grid 0..MaxSV: 0 is 0.0, 1 is a positive number so small that *)
(*    it is below 1.e-20 relative to one unit and is absorbed when added   *)
(*    to a unit in floating point, and n >= 2 is n-1 units.  The grid      *)
(*    keeps the order of the reals.                                        *)
(*  - A Schmidt vector Y / norm(Y) is the record [num |-> Y, den2 |-> the  *)
(*    squared norm it was divided by, in units^2].                         *)
(*  - The outcome of a call is a record: [kind |-> "raise", exc |-> ..]    *)
(*    or [kind |-> "return", val |-> .., warn |-> ..].                     *)
(***************************************************************************)
EXTENDS Integers, Sequences, FiniteSets, TLC

VARIABLES Bs, Ss, bc, L, nbonds, call, ret

vars == <<Bs, Ss, bc, L, nbonds, call, ret>>
mps  == <<Bs, Ss, bc, L, nbonds>>

(***************************************************************************)
(* Bounds of the model.                                                    *)
(***************************************************************************)
MaxSV   == 3    \* largest grid point of a singular value
MaxEps  == 2    \* largest grid point of eps
MaxChi  == 2    \* largest chi_max a caller passes
MaxDim  == 2    \* largest leg dimension of a theta handed to the pure function
MaxRank == 4    \* largest number of singular values of such a theta
MaxL    == 2    \* largest number of sites
MaxJ    == 4    \* largest site index passed to correlation_function
MaxD    == 2    \* largest physical dimension of a site
MaxOver == 50   \* how far an imaginary part goes beyond the tolerance

(***************************************************************************)
(* Outcomes of a call.                                                     *)
(***************************************************************************)
NoRet == [kind |-> "none"]
Raise(e) == [kind |-> "raise", exc |-> e]
Return(v) == [kind |-> "return", val |-> v, warn |-> FALSE]
ReturnWarn(v) == [kind |-> "return", val |-> v, warn |-> TRUE]

Min(a, b) == IF a <= b THEN a ELSE b

(***************************************************************************)
(* The number grid.                                                        *)
(***************************************************************************)
Tiny == 1
Unit == 2

\* the value of a grid point in units, as floating-point sums see it
Ord(l) == IF l <= Tiny THEN 0 ELSE l - 1

RECURSIVE SumSq(_)
SumSq(s) == IF s = <<>> THEN 0 ELSE Ord(Head(s)) * Ord(Head(s)) + SumSq(Tail(s))

(***************************************************************************)
(* scipy.linalg.svd(theta, full_matrices=False) of an m x n matrix: the    *)
(* min(m, n) singular values, non-negative and in non-increasing order.    *)
(***************************************************************************)
RECURSIVE NonIncreasing(_, _)
\* the sequences of k grid points, non-increasing, the first at most top
NonIncreasing(k, top) ==
    IF k = 0 THEN {<<>>}
    ELSE UNION {{<<v>> \o s : s \in NonIncreasing(k - 1, v)} : v \in 0..top}

Spectra(k) == NonIncreasing(k, MaxSV)

\* the same with the singular values reduced to the three classes that the
\* operations on a stored Schmidt vector tell apart: zero, below the clamp
\* threshold, ordinary
ClassSpectra(k) == NonIncreasing(k, Unit)

\* np.argsort(Y): a permutation that sorts Y in ascending order; the order
\* of equal values is whatever the sort algorithm gives
ArgSorts(Y) ==
    {p \in Permutations(1..Len(Y)) :
        \A a \in 1..Len(Y), b \in 1..Len(Y) : a < b => Y[p[a]] <= Y[p[b]]}

\* np.sum(Y > eps)
CountGreater(Y, eps) == Cardinality({a \in 1..Len(Y) : Y[a] > eps})

\* a faulty variant of RetainedRank: the cap chi_max is forgotten
RetainedRankNoCap(Y, chi_max, eps) == CountGreater(Y, eps)

\* chivC = min(chi_max, np.sum(Y > eps))
RetainedRank(Y, chi_max, eps) == Min(chi_max, CountGreater(Y, eps))

\* a faulty variant of RankAccepted: the assertion admits rank 0
RankAcceptedZero(chivC) == chivC >= 0

\* assert chivC >= 1
RankAccepted(chivC) == chivC >= 1

\* a faulty variant of Piv: the reversal [::-1] is forgotten
PivAscending(order, chivC) == [n \in 1..chivC |-> order[n]]

\* np.argsort(Y)[::-1][:chivC]
Piv(order, chivC) == [n \in 1..chivC |-> order[Len(order) + 1 - n]]

\* Y[piv], X[:, piv], Z[piv, :]
Take(v, piv) == [n \in 1..Len(piv) |-> v[piv[n]]]

\* S = Y / np.linalg.norm(Y)
Normalize(Y) ==
    IF \A a \in 1..Len(Y) : Y[a] = Tiny
    THEN [num |-> [a \in 1..Len(Y) |-> Unit], den2 |-> Len(Y)]
    ELSE [num |-> Y, den2 |-> SumSq(Y)]

\* np.reshape(X, [chivL, dL, chivC])
ReshapeA(chivL, dL, chivC) == <<chivL, dL, chivC>>

\* a faulty variant of ReshapeB: the virtual legs in the wrong order
ReshapeBSwapped(chivC, dR, chivR) == <<chivR, dR, chivC>>

\* np.reshape(Z, [chivC, dR, chivR])
ReshapeB(chivC, dR, chivR) == <<chivC, dR, chivR>>

(***************************************************************************)
(* split_truncate_theta(theta, chi_max, eps).  theta is the shape          *)
(* (chivL, dL, dR, chivR), Y the singular values svd returns for it and    *)
(* order the permutation argsort returns for Y.  X is represented by the   *)
(* indices of its columns and Z by the indices of its rows.                *)
(***************************************************************************)
split_truncate_theta(theta, Y, order, chi_max, eps) ==
    LET chivL == theta[1]
        dL    == theta[2]
        dR    == theta[3]
        chivR == theta[4]
        X     == [a \in 1..Len(Y) |-> a]
        Z     == [a \in 1..Len(Y) |-> a]
        chivC == RetainedRank(Y, chi_max, eps)
    IN  IF ~RankAccepted(chivC)
        THEN Raise("AssertionError")
        ELSE LET piv == Piv(order, chivC)
                 Xp  == Take(X, piv)
                 Yp  == Take(Y, piv)
                 Zp  == Take(Z, piv)
             IN  Return([A |-> ReshapeA(chivL, dL, Len(Xp)),
                         S |-> Normalize(Yp),
                         B |-> ReshapeB(Len(Zp), dR, chivR),
                         Xcols |-> Xp, Ykept |-> Yp, Zrows |-> Zp])

\* the number of singular values of theta reshaped to (chivL*dL, dR*chivR)
SvdRank(theta) == Min(theta[1] * theta[2], theta[3] * theta[4])

(***************************************************************************)
(* Specification of the pure function: the inputs are drawn in the initial *)
(* state and one action applies the function.                              *)
(***************************************************************************)
ThetaShapes ==
    {theta \in (1..MaxDim) \X (1..MaxDim) \X (1..MaxDim) \X (1..MaxDim) :
        SvdRank(theta) <= MaxRank}

\* init_FM_MPS(L, d, bc) / init_Neel_MPS(L, d, bc): all bonds of dimension 1,
\* all Schmidt vectors [1.]
ProductBs(l, d) == [i \in 0..(l - 1) |-> <<1, d, 1>>]
ProductSs(l) == [i \in 0..(l - 1) |-> [num |-> <<Unit>>, den2 |-> 1]]

SplitInit ==
    /\ bc = "finite"
    /\ L = 1
    /\ nbonds = 0
    /\ Bs = ProductBs(1, 2)
    /\ Ss = ProductSs(1)
    /\ ret = NoRet
    /\ \E theta \in ThetaShapes, chi_max \in -1..MaxChi, eps \in 0..MaxEps :
         \E Y \in Spectra(SvdRank(theta)) :
            call = [op |-> "input", theta |-> theta, Y |-> Y,
                    chi_max |-> chi_max, eps |-> eps]

SplitTruncateTheta ==
    /\ call.op = "input"
    /\ \E order \in ArgSorts(call.Y) :
         ret' = split_truncate_theta(call.theta, call.Y, order, call.chi_max, call.eps)
    /\ call' = [call EXCEPT !.op = "split_truncate_theta"]
    /\ UNCHANGED mps

SplitNext == SplitTruncateTheta

SpecSplit == SplitInit /\ [][SplitNext]_vars


(***************************************************************************)
(* SimpleMPS.  Bs and Ss are Python lists, here functions on 0..L-1.       *)
(***************************************************************************)
BoundaryConditions == {"finite", "infinite"}

\* SimpleMPS.__init__(Bs, Ss, bc)
SimpleMPS(bs0, ss0, bc0) ==
    /\ bc0 \in BoundaryConditions
    /\ Bs = bs0
    /\ Ss = ss0
    /\ bc = bc0
    /\ L = Cardinality(DOMAIN bs0)
    /\ nbonds = IF bc0 = "finite" THEN Cardinality(DOMAIN bs0) - 1
                ELSE Cardinality(DOMAIN bs0)

\* get_theta1(i): np.tensordot(np.diag(Ss[i]), Bs[i], (1, 0)), legs vL i vR
get_theta1(bs, ss, i) ==
    IF i \notin DOMAIN bs \/ i \notin DOMAIN ss
    THEN Raise("IndexError")
    ELSE IF Len(ss[i].num) # bs[i][1]
    THEN Raise("ValueError")
    ELSE Return(<<Len(ss[i].num), bs[i][2], bs[i][3]>>)

\* j = (i + 1) % self.L
NextSite(i, l) == (i + 1) % l

\* get_theta2(i): np.tensordot(get_theta1(i), Bs[j], (2, 0)), legs vL i j vR
get_theta2(bs, ss, l, i) ==
    LET j  == NextSite(i, l)
        t1 == get_theta1(bs, ss, i)
    IN  IF t1.kind = "raise"
        THEN t1
        ELSE IF t1.val[3] # bs[j][1]
        THEN Raise("ValueError")
        ELSE Return(<<t1.val[1], t1.val[2], bs[j][2], bs[j][3]>>)

\* get_chi(): [Bs[i].shape[2] for i in range(nbonds)]
get_chi(bs, nb) == [i \in 0..(nb - 1) |-> bs[i][3]]

\* np.real_if_close(result): tol = 100 machine epsilons; the imaginary parts
\* (in machine epsilons) are dropped when all of them are below tol, and the
\* complex array is returned as it is otherwise
RealIfCloseTol == 100

real_if_close(imag) ==
    IF \A i \in DOMAIN imag : imag[i] < RealIfCloseTol
    THEN [dtype |-> "float", n |-> Cardinality(DOMAIN imag)]
    ELSE [dtype |-> "complex", n |-> Cardinality(DOMAIN imag)]

RECURSIVE FirstRaise(_, _, _)
\* the first exception a loop over 0..n-1 meets, or the value `done`
FirstRaise(step, n, done) ==
    IF n = 0 THEN done
    ELSE LET before == FirstRaise(step, n - 1, done)
         IN  IF before.kind = "raise" THEN before
             ELSE IF step[n - 1].kind = "raise" THEN step[n - 1]
             ELSE done

\* site_expectation_value(op): imag[i] is the size of the imaginary part of
\* the contraction at site i
site_expectation_value(bs, ss, l, imag) ==
    FirstRaise([i \in 0..(l - 1) |-> get_theta1(bs, ss, i)], l,
               Return(real_if_close(imag)))

\* bond_expectation_value(op): imag[i] as above, for bond i
bond_expectation_value(bs, ss, l, nb, imag) ==
    FirstRaise([i \in 0..(nb - 1) |-> get_theta2(bs, ss, l, i)], nb,
               Return(real_if_close(imag)))

\* S[S < 1.e-20] = 0.
Clamp(S) ==
    [S EXCEPT !.num = [a \in 1..Len(S.num) |-> IF S.num[a] <= Tiny THEN 0 ELSE S.num[a]]]

\* abs(np.linalg.norm(S) - 1.) < 1.e-13
NormIsOne(S) == SumSq(S.num) = S.den2

\* a faulty variant of EntropyStep: S = self.Ss[i] without .copy(), the clamp writes
\* into the stored vector
EntropyStepAlias(ss, i) == [Ss |-> [ss EXCEPT ![i] = Clamp(ss[i])], S |-> Clamp(ss[i])]

\* one turn of the loop of entanglement_entropy: S = self.Ss[i].copy() and
\* the clamp of S; Ss is the stored list after it
EntropyStep(ss, i) == [Ss |-> ss, S |-> Clamp(ss[i])]

RECURSIVE EntropyLoop(_, _, _, _)
\* for i in bonds (i = lo .. hi-1): the stored list and the outcome
EntropyLoop(ss, lo, hi, acc) ==
    IF lo >= hi THEN [Ss |-> ss, ret |-> Return(acc)]
    ELSE LET st == EntropyStep(ss, lo)
         IN  IF ~NormIsOne(st.S)
             THEN [Ss |-> st.Ss, ret |-> Raise("AssertionError")]
             ELSE EntropyLoop(st.Ss, lo + 1, hi, Append(acc, st.S))

\* entanglement_entropy(): the entropy of a bond is represented by the
\* clamped Schmidt vector it is computed from
entanglement_entropy(ss, l, bcv) ==
    EntropyLoop(ss, IF bcv = "finite" THEN 1 ELSE 0, l, <<>>)

(***************************************************************************)
(* correlation_length().  A real result is the fraction num/den, den > 0,  *)
(* or an infinity with its sign.  eta is what arp.eigs returns: an         *)
(* exception, or the smaller of the eigenvalue magnitudes, given by its    *)
(* logarithm in units of 1/LogScale (or as exactly zero).                  *)
(***************************************************************************)
ChiCutoff == 100
XiCutoff  == 1000
LogScale  == 2000

Real(n, d) == [kind |-> "real", num |-> n, den |-> d]
Inf(sign)  == [kind |-> "inf", sign |-> sign]

EtaRaise  == [kind |-> "raise"]
EtaZero   == [kind |-> "zero"]
EtaLn(k)  == [kind |-> "ln", ln |-> k]

\* the logarithms of the second magnitude a canonical-form state can give:
\* at most 0 up to rounding
LnEtas == {0 - 2 * LogScale, 0 - LogScale, -1, 0, 1}

\* arp.eigs(T, k=2, which='LM', ncv=20) of the chi^2 x chi^2 matrix T; for
\* chi = 1 the matrix is 1 x 1, k >= N - 1, and the library raises or hands
\* back the one eigenvalue, which is 1 up to rounding
EigsOutcomes(chi) ==
    IF chi = 1
    THEN {EtaRaise, EtaLn(-1), EtaLn(0), EtaLn(1)}
    ELSE {EtaRaise, EtaZero} \cup {EtaLn(k) : k \in LnEtas}

\* xi = -self.L / np.log(np.min(np.abs(eta)))
XiOf(l, eta) ==
    IF eta.kind = "zero" THEN Real(0, 1)
    ELSE IF eta.ln = 0 THEN Inf(-1)
    ELSE IF eta.ln < 0 THEN Real(l * LogScale, 0 - eta.ln)
    ELSE Real(0 - l * LogScale, eta.ln)

\* if xi > 1000.: return np.inf
XiTooLarge(xi) ==
    IF xi.kind = "inf" THEN xi.sign > 0 ELSE xi.num > XiCutoff * xi.den

RECURSIVE TransferLoop(_, _, _, _)
\* for i in range(1, L): T = tensordot(T, B, (2, 0)); T = tensordot(T,
\* conj(B), ([2, 3], [0, 1])); T has legs vL vL* vR vR*
TransferLoop(bs, i, l, T) ==
    IF i >= l THEN Return(T)
    ELSE IF T[3] # bs[i][1] \/ T[4] # bs[i][1]
    THEN Raise("ValueError")
    ELSE TransferLoop(bs, i + 1, l, <<T[1], T[2], bs[i][3], bs[i][3]>>)

\* self.get_chi()[0] > 100
OverCutoff(chi) == chi > ChiCutoff

correlation_length(bs, l, nb, bcv, eta) ==
    IF nb = 0
    THEN Raise("IndexError")
    ELSE IF OverCutoff(get_chi(bs, nb)[0])
    THEN ReturnWarn(Real(-1, 1))
    ELSE IF bcv # "infinite"
    THEN Raise("AssertionError")
    ELSE LET chi == bs[0][1]
             T   == TransferLoop(bs, 1, l, <<bs[0][1], bs[0][1], bs[0][3], bs[0][3]>>)
         IN  IF T.kind = "raise" THEN T
             ELSE IF T.val[3] * T.val[4] # chi * chi
             THEN Raise("ValueError")
             ELSE IF eta.kind = "raise"
             THEN Raise("ArpackError")
             ELSE IF XiTooLarge(XiOf(l, eta))
             THEN Return(Inf(1))
             ELSE Return(XiOf(l, eta))

(***************************************************************************)
(* correlation_function(op_i, i, op_j, j).  C has legs vR* vR.  The sites  *)
(* absorbed, with the operator applied at each, are recorded in order.     *)
(***************************************************************************)
Absorbed(site, op) == [site |-> site, op |-> op]

\* a faulty variant of LoopSite: the wrap-around k % L is forgotten
LoopSiteNoWrap(k, l) == k

\* k = k % self.L
LoopSite(k, l) == k % l

RECURSIVE CorrelationLoop(_, _, _, _, _, _)
\* for k in range(i + 1, j)
CorrelationLoop(bs, l, k, j, C, sites) ==
    IF k >= j THEN [ret |-> Return(C), sites |-> sites]
    ELSE LET kk == LoopSite(k, l)
         IN  IF kk \notin DOMAIN bs
             THEN [ret |-> Raise("IndexError"), sites |-> sites]
             ELSE IF C[2] # bs[kk][1] \/ C[1] # bs[kk][1]
             THEN [ret |-> Raise("ValueError"), sites |-> sites]
             ELSE CorrelationLoop(bs, l, k + 1, j, <<bs[kk][3], bs[kk][3]>>,
                                  Append(sites, Absorbed(kk, "none")))

correlation_function(bs, ss, l, i, j) ==
    IF ~(i < j)
    THEN [ret |-> Raise("AssertionError"), sites |-> <<>>]
    ELSE LET theta == get_theta1(bs, ss, i)
         IN  IF theta.kind = "raise"
             THEN [ret |-> theta, sites |-> <<>>]
             ELSE LET C0 == <<theta.val[3], theta.val[3]>>
                      lp == CorrelationLoop(bs, l, i + 1, j, C0, <<Absorbed(i, "op_i")>>)
                      jj == j % l
                  IN  IF lp.ret.kind = "raise" THEN lp
                      ELSE IF lp.ret.val[2] # bs[jj][1] \/ lp.ret.val[1] # bs[jj][1]
                      THEN [ret |-> Raise("ValueError"), sites |-> lp.sites]
                      ELSE [ret |-> Return(<<>>),
                            sites |-> Append(lp.sites, Absorbed(jj, "op_j"))]

(***************************************************************************)
(* The state machine of one SimpleMPS: created as a product state, changed *)
(* by bond updates, read by the queries.  call holds the name of the last  *)
(* operation, ret its outcome.                                             *)
(***************************************************************************)
Init ==
    /\ \E l \in 1..MaxL, d \in 2..MaxD, b \in BoundaryConditions :
          SimpleMPS(ProductBs(l, d), ProductSs(l), b)
    /\ call = [op |-> "init"]
    /\ ret = NoRet

Sites == 0..(L - 1)

\* the sizes an imaginary part can have, in machine epsilons
ImagVals == {0, RealIfCloseTol - 1, RealIfCloseTol, RealIfCloseTol + MaxOver}

\* the triple (A, S, B) that split_truncate_theta returns does not depend on
\* how argsort orders equal singular values (SplitOrderIrrelevant, checked
\* under SpecSplit), so the two actions below use one order of ArgSorts(Y):
\* svd returns Y in non-increasing order, which the reversal sorts
SomeArgSort(Y) == [n \in 1..Len(Y) |-> Len(Y) + 1 - n]

\* the write-back of a caller: Bs[i] = A; Ss[j] = S; Bs[j] = B
WriteBack(bs, ss, i, j, r) ==
    [Bs |-> [[bs EXCEPT ![i] = r.A] EXCEPT ![j] = r.B],
     Ss |-> [ss EXCEPT ![j] = r.S]]

\* a bond update of a caller (TEBD, DMRG): theta = get_theta2(i) with a
\* gate applied, split_truncate_theta, write-back; the singular values and
\* eps are taken from the three classes of ClassSpectra
UpdateBond ==
    \E i \in Sites, chi_max \in 0..MaxChi, eps \in 0..Unit :
        /\ bc = "finite" => i < L - 1
        /\ LET theta == get_theta2(Bs, Ss, L, i)
           IN  /\ theta.kind = "return"
               /\ SvdRank(theta.val) <= MaxRank
               /\ \E Y \in ClassSpectra(SvdRank(theta.val)) :
                     LET r == split_truncate_theta(theta.val, Y, SomeArgSort(Y),
                                                   chi_max, eps)
                     IN  IF r.kind = "return"
                         THEN LET w == WriteBack(Bs, Ss, i, NextSite(i, L), r.val)
                              IN  /\ Bs' = w.Bs
                                  /\ Ss' = w.Ss
                                  /\ ret' = Return(<<>>)
                         ELSE /\ UNCHANGED <<Bs, Ss>>
                              /\ ret' = r
        /\ call' = [op |-> "update_bond", i |-> i]
        /\ UNCHANGED <<bc, L, nbonds>>

GetTheta1 ==
    \E i \in 0..L :
        /\ ret' = get_theta1(Bs, Ss, i)
        /\ call' = [op |-> "get_theta1"]
        /\ UNCHANGED mps

GetTheta2 ==
    \E i \in 0..L :
        /\ ret' = get_theta2(Bs, Ss, L, i)
        /\ call' = [op |-> "get_theta2"]
        /\ UNCHANGED mps

GetChi ==
    /\ ret' = Return(get_chi(Bs, nbonds))
    /\ call' = [op |-> "get_chi"]
    /\ UNCHANGED mps

SiteExpectationValue ==
    \E imag \in [Sites -> ImagVals] :
        /\ ret' = site_expectation_value(Bs, Ss, L, imag)
        /\ call' = [op |-> "site_expectation_value"]
        /\ UNCHANGED mps

BondExpectationValue ==
    \E imag \in [0..(nbonds - 1) -> ImagVals] :
        /\ ret' = bond_expectation_value(Bs, Ss, L, nbonds, imag)
        /\ call' = [op |-> "bond_expectation_value"]
        /\ UNCHANGED mps

EntanglementEntropy ==
    LET r == entanglement_entropy(Ss, L, bc)
    IN  /\ Ss' = r.Ss
        /\ ret' = r.ret
        /\ call' = [op |-> "entanglement_entropy"]
        /\ UNCHANGED <<Bs, bc, L, nbonds>>

CorrelationLength ==
    \E eta \in EigsOutcomes(Bs[0][1]) :
        /\ ret' = correlation_length(Bs, L, nbonds, bc, eta)
        /\ call' = [op |-> "correlation_length"]
        /\ UNCHANGED mps

CorrelationFunction ==
    \E i \in 0..MaxJ, j \in 0..MaxJ :
        /\ ret' = correlation_function(Bs, Ss, L, i, j).ret
        /\ call' = [op |-> "correlation_function"]
        /\ UNCHANGED mps

\* split_truncate_theta called on the two-site wave function of bond i
\* without a write-back
SplitTheta ==
    \E i \in Sites, chi_max \in 0..MaxChi, eps \in 0..Unit :
        LET theta == get_theta2(Bs, Ss, L, i)
        IN  /\ theta.kind = "return"
            /\ SvdRank(theta.val) <= MaxRank
            /\ \E Y \in ClassSpectra(SvdRank(theta.val)) :
                  LET r == split_truncate_theta(theta.val, Y, SomeArgSort(Y),
                                                chi_max, eps)
                  IN  ret' = IF r.kind = "return"
                             THEN Return([A |-> r.val.A, B |-> r.val.B])
                             ELSE r
            /\ call' = [op |-> "split_truncate_theta"]
            /\ UNCHANGED mps

Next ==
    \/ UpdateBond
    \/ GetTheta1
    \/ GetTheta2
    \/ GetChi
    \/ SiteExpectationValue
    \/ BondExpectationValue
    \/ EntanglementEntropy
    \/ CorrelationLength
    \/ CorrelationFunction
    \/ SplitTheta

Spec == Init /\ [][Next]_vars

(***************************************************************************)
(* Claims about split_truncate_theta, checked under SpecSplit.             *)
(***************************************************************************)
SplitDone == call.op = "split_truncate_theta" /\ "Y" \in DOMAIN call

Descending(v) == \A a \in 1..Len(v), b \in 1..Len(v) : a < b => v[a] >= v[b]

Range(v) == {v[a] : a \in 1..Len(v)}

NumAboveEps == Cardinality({a \in 1..Len(call.Y) : call.Y[a] > call.eps})

\* C1: for every accepted input (chi_max >= 1, eps >= 0, some singular value
\* > eps) the call returns, the number of retained singular values is
\* min(chi_max, number of singular values > eps), S has that length, which is
\* <= chi_max, and so have the last leg of A and the first leg of B.
C1_RetainedRank ==
    (SplitDone /\ call.chi_max >= 1 /\ call.eps >= 0 /\ NumAboveEps >= 1) =>
        /\ ret.kind = "return"
        /\ Len(ret.val.S.num) = Min(call.chi_max, NumAboveEps)
        /\ Len(ret.val.Ykept) = Min(call.chi_max, NumAboveEps)
        /\ Len(ret.val.S.num) <= call.chi_max
        /\ ret.val.A[3] = Len(ret.val.S.num)
        /\ ret.val.B[1] = Len(ret.val.S.num)
        /\ ret.val.A[1] = call.theta[1] /\ ret.val.A[2] = call.theta[2]
        /\ ret.val.B[2] = call.theta[3] /\ ret.val.B[3] = call.theta[4]

\* C1 witness: an accepted input where chi_max cuts below the number of
\* singular values above eps, and one where eps cuts below chi_max
C1_Witness ==
    /\ SplitDone /\ ret.kind = "return"
    /\ call.chi_max = 2 /\ NumAboveEps = 3
    /\ Len(ret.val.S.num) = 2

C1_WitnessEps ==
    /\ SplitDone /\ ret.kind = "return"
    /\ call.chi_max = 2 /\ NumAboveEps = 1 /\ Len(call.Y) >= 2
    /\ Len(ret.val.S.num) = 1

\* C2: the retained singular values are the retained-rank largest ones in
\* descending order, the columns kept of X and the rows kept of Z are the
\* same indices, no discarded singular value is larger than a retained one
\* and every retained one is > eps.
C2_LargestKept ==
    (SplitDone /\ ret.kind = "return") =>
        LET r == ret.val
            kept == Range(r.Xcols)
        IN  /\ r.Xcols = r.Zrows
            /\ Len(r.Xcols) = Len(r.Ykept)
            /\ kept \subseteq 1..Len(call.Y)
            /\ Cardinality(kept) = Len(r.Xcols)
            /\ \A n \in 1..Len(r.Ykept) : r.Ykept[n] = call.Y[r.Xcols[n]]
            /\ Descending(r.Ykept)
            /\ Descending(r.S.num)
            /\ Len(r.S.num) = Len(r.Ykept)
            /\ \A a \in (1..Len(call.Y)) \ kept :
                  \A n \in 1..Len(r.Ykept) : call.Y[a] <= r.Ykept[n]
            /\ \A n \in 1..Len(r.Ykept) : r.Ykept[n] > call.eps

\* C2 witness: a truncation that discards a singular value above eps which
\* is strictly smaller than a retained one
C2_Witness ==
    /\ SplitDone /\ ret.kind = "return"
    /\ \E a \in 1..Len(call.Y) :
          /\ a \notin Range(ret.val.Xcols)
          /\ call.Y[a] > call.eps
          /\ call.Y[a] < ret.val.Ykept[Len(ret.val.Ykept)]

\* C3: when no singular value is > eps, or chi_max < 1, the call fails with
\* an assertion error and returns no triple; a triple that is returned never
\* has a bond of dimension zero or an empty Schmidt vector.
C3_RankZeroFatal ==
    SplitDone =>
        /\ (NumAboveEps = 0 \/ call.chi_max < 1) => ret = Raise("AssertionError")
        /\ ret.kind = "return" =>
              /\ Len(ret.val.S.num) >= 1
              /\ ret.val.A[3] >= 1
              /\ ret.val.B[1] >= 1

\* C3 witness: all singular values are <= eps although chi_max is positive
C3_Witness ==
    /\ SplitDone
    /\ call.chi_max >= 1 /\ NumAboveEps = 0 /\ call.Y[1] > 0
    /\ ret = Raise("AssertionError")

C3_WitnessChiMax ==
    /\ SplitDone
    /\ call.chi_max = 0 /\ NumAboveEps >= 1
    /\ ret = Raise("AssertionError")


\* Lemma used by UpdateBond and SplitTheta: the triple returned is the same
\* for every order argsort may give, and the reversal is one of these orders.
SplitOrderIrrelevant ==
    (SplitDone /\ ret.kind = "return") =>
        /\ SomeArgSort(call.Y) \in ArgSorts(call.Y)
        /\ \A o \in ArgSorts(call.Y) :
              LET r == split_truncate_theta(call.theta, call.Y, o, call.chi_max, call.eps)
              IN  /\ r.kind = "return"
                  /\ r.val.A = ret.val.A
                  /\ r.val.S = ret.val.S
                  /\ r.val.B = ret.val.B

(***************************************************************************)
(* Claims about the stored state, checked under Spec.                      *)
(***************************************************************************)
\* bond-dimension consistency of a state (section 3 of the specification)
Consistent ==
    /\ \A i \in Sites : Bs[i][1] = Len(Ss[i].num)
    /\ \A i \in Sites :
          (bc = "infinite" \/ i < L - 1) => Bs[i][3] = Len(Ss[(i + 1) % L].num)
    /\ bc = "finite" => (Bs[0][1] = 1 /\ Bs[L - 1][3] = 1)

PhysicalDims == [i \in Sites |-> Bs[i][2]]

UpdatePreserves ==
    /\ Consistent'
    /\ PhysicalDims' = PhysicalDims
    /\ bc = "finite" => (Bs'[0][1] = 1 /\ Bs'[L - 1][3] = 1)

\* C4 as stated: every bond update (i < L-1 for finite, any i for infinite)
\* of a consistent state leaves the state consistent, with the physical
\* dimensions unchanged and, for finite chains, outermost bonds of size 1.
C4_UpdateKeepsConsistency ==
    [][(call'.op = "update_bond" /\ Consistent) => UpdatePreserves]_vars

\* C4 amended: the same for finite chains and for infinite chains with a
\* unit cell of at least two sites.
C4_UpdateKeepsConsistencyTwoSites ==
    [][(call'.op = "update_bond" /\ Consistent /\ (bc = "infinite" => L >= 2))
          => UpdatePreserves]_vars

\* C4 witness: an infinite chain of two sites after an update of the bond
\* that wraps around (i = L-1, j = 0), with bonds of different dimensions
C4_Witness ==
    /\ call.op = "update_bond" /\ ret.kind = "return"
    /\ bc = "infinite" /\ L = 2 /\ call.i = 1
    /\ Len(Ss[0].num) = 2 /\ Len(Ss[1].num) = 1
    /\ Bs[1] = <<1, 2, 2>> /\ Bs[0] = <<2, 2, 1>>

\* a caller that writes back what split_truncate_theta returns never stores
\* an empty Schmidt vector or a bond of dimension zero
StoredBondsNonEmpty ==
    \A i \in Sites : Len(Ss[i].num) >= 1 /\ Bs[i][1] >= 1 /\ Bs[i][3] >= 1

QueryOps ==
    {"get_theta1", "get_theta2", "get_chi", "site_expectation_value",
     "bond_expectation_value", "entanglement_entropy", "correlation_length",
     "correlation_function", "split_truncate_theta"}

\* C5: every query, and split_truncate_theta, leaves Bs, Ss, bc, L and
\* nbonds as they were, whether it returns or fails; entanglement_entropy
\* clamps on a copy.
C5_QueriesReadOnly ==
    [][call'.op \in QueryOps => UNCHANGED <<Bs, Ss, bc, L, nbonds>>]_vars

\* C5 witness: entanglement_entropy has returned an entropy computed from a
\* clamped value while the stored Schmidt vector still holds the small value
C5_Witness ==
    /\ call.op = "entanglement_entropy" /\ ret.kind = "return"
    /\ bc = "infinite"
    /\ \E i \in Sites :
          /\ Len(Ss[i].num) = 2
          /\ Ss[i].num[2] = Tiny
          /\ ret.val[i + 1].num[2] = 0

\* a query that has failed
C5_WitnessFailure ==
    /\ call.op \in QueryOps
    /\ ret.kind = "raise"
    /\ \E i \in Sites : Len(Ss[i].num) = 2


(***************************************************************************)
(* Specification of the queries on a state handed to the constructor:     *)
(* SimpleMPS(Bs, Ss, bc) with consistent bond dimensions, each site tensor *)
(* of a shape a right-canonical tensor can have (vL <= d * vR), and        *)
(* uniform Schmidt vectors.  call holds the arguments of the last query.   *)
(***************************************************************************)
ChiVals == {1, 2, (ChiCutoff + 2) \div 2, ChiCutoff, ChiCutoff + 1}

PhysDims == {2, ChiCutoff + 1}

UniformS(chi) == [num |-> [a \in 1..chi |-> Unit], den2 |-> chi]

\* the site tensors of a chain whose bond left of site i has dimension chis[i]
ChainBs(l, d, b, chis) ==
    [i \in 0..(l - 1) |->
        <<chis[i], d, IF b = "finite" /\ i = l - 1 THEN 1 ELSE chis[(i + 1) % l]>>]

QueryInit ==
    /\ \E l \in 1..MaxL, d \in PhysDims, b \in BoundaryConditions :
       \E chis \in [0..(l - 1) -> ChiVals] :
          /\ b = "finite" => chis[0] = 1
          /\ \A i \in 0..(l - 1) :
                ChainBs(l, d, b, chis)[i][1] <= d * ChainBs(l, d, b, chis)[i][3]
          /\ SimpleMPS(ChainBs(l, d, b, chis),
                       [i \in 0..(l - 1) |-> UniformS(chis[i])], b)
    /\ call = [op |-> "init"]
    /\ ret = NoRet

\* eta is what arp.eigs returns if the call gets as far as calling it
CallCorrelationLength ==
    \E eta \in EigsOutcomes(Bs[0][1]) :
        /\ ret' = correlation_length(Bs, L, nbonds, bc, eta)
        /\ call' = [op |-> "correlation_length", eta |-> eta]
        /\ UNCHANGED mps

CallCorrelationFunction ==
    \E i \in 0..MaxJ, j \in 0..MaxJ :
        LET r == correlation_function(Bs, Ss, L, i, j)
        IN  /\ ret' = r.ret
            /\ call' = [op |-> "correlation_function", i |-> i, j |-> j,
                        sites |-> r.sites]
            /\ UNCHANGED mps

CallSiteExpectationValue ==
    \E imag \in [Sites -> ImagVals] :
        /\ ret' = site_expectation_value(Bs, Ss, L, imag)
        /\ call' = [op |-> "site_expectation_value", imag |-> imag]
        /\ UNCHANGED mps

QueryNext ==
    \/ CallCorrelationLength
    \/ CallCorrelationFunction
    \/ CallSiteExpectationValue

SpecQuery == QueryInit /\ [][QueryNext]_vars

(***************************************************************************)
(* Claims about the queries, checked under SpecQuery.                      *)
(***************************************************************************)
LengthDone == call.op = "correlation_length"

\* C6: on a finite chain correlation_length() fails with a fatal error,
\* whatever the bond dimensions; it returns neither a length nor -1.
C6_FiniteIsFatal ==
    (LengthDone /\ bc = "finite") => ret.kind = "raise"

\* C7: on an infinite chain correlation_length() returns -1 with a warning
\* whenever the left bond of Bs[0], which sizes the transfer matrix, is
\* larger than 100, for every L and for unequal bond dimensions (stated for
\* the runs in which the eigensolver, were it called, would not fail).
C7_LargeChiSkipped ==
    (LengthDone /\ bc = "infinite" /\ Bs[0][1] > ChiCutoff /\ call.eta.kind # "raise") =>
        ret = ReturnWarn(Real(-1, 1))

AllBondsWithinCutoff ==
    \A i \in Sites : Bs[i][1] <= ChiCutoff /\ Bs[i][3] <= ChiCutoff

\* C8: on an infinite chain with bond dimensions <= 100 a value returned by
\* correlation_length() is a non-negative real or +infinity, and it is
\* +infinity when the smaller eigenvalue magnitude is 1 or above 1.
C8_LengthNonNegative ==
    (LengthDone /\ bc = "infinite" /\ AllBondsWithinCutoff /\ ret.kind = "return") =>
        /\ ret.val = Inf(1) \/ (ret.val.kind = "real" /\ ret.val.num >= 0)
        /\ (call.eta.kind = "ln" /\ call.eta.ln >= 0) => ret.val = Inf(1)

SiteDone == call.op = "site_expectation_value"

\* C9: site_expectation_value(op) returns L real numbers when every
\* imaginary part is negligible, and signals a warning or an error when
\* some imaginary part is not negligible.
C9_ImaginarySignalled ==
    SiteDone =>
        IF \E i \in Sites : call.imag[i] >= RealIfCloseTol
        THEN ret.kind = "raise" \/ ret.warn
        ELSE ret.kind = "return" /\ ret.val.dtype = "float" /\ ret.val.n = L

FunctionDone == call.op = "correlation_function"

\* the order of absorption the claim states: site i with op_i, the sites
\* i+1 .. j-1 mod L without an operator, site j mod L with op_j
ExpectedSites(i, j) ==
    [n \in 1..(j - i + 1) |->
        IF n = 1 THEN Absorbed(i, "op_i")
        ELSE IF n = j - i + 1 THEN Absorbed(j % L, "op_j")
        ELSE Absorbed((i + n - 1) % L, "none")]

\* C10: correlation_function(op_i, i, op_j, j) fails with an assertion
\* error before any contraction when i >= j; when i < j (i a site of the
\* chain) it absorbs site i with op_i, then the sites i+1 .. j-1 mod L
\* without an operator, then site j mod L with op_j, each once: j-i+1
\* absorptions.
C10_ContractionOrder ==
    FunctionDone =>
        /\ call.i >= call.j => (ret = Raise("AssertionError") /\ call.sites = <<>>)
        /\ (call.i < call.j /\ call.i \in Sites) =>
              /\ ret.kind = "return"
              /\ Len(call.sites) = call.j - call.i + 1
              /\ call.sites = ExpectedSites(call.i, call.j)

\* C10 witness: a contraction over more than one unit cell of an infinite
\* chain of two sites
C10_Witness ==
    /\ FunctionDone /\ ret.kind = "return"
    /\ bc = "infinite" /\ L = 2 /\ call.i = 1 /\ call.j = 4
    /\ Bs[0][1] # Bs[1][1]
    /\ Len(call.sites) = 4

C10_WitnessFatal ==
    /\ FunctionDone /\ call.i = call.j /\ ret.kind = "raise"

=============================================================================
